---- MODULE Spec2Model ----
(***************************************************************************)
(* A model of Regular-Organizer (src/Regular Organizer/Organizer.py):      *)
(* the Reminder objects, the Calendar that lists them, the completion log, *)
(* the two files the Calendar writes, the polling loop and the wall clock. *)
(*                                                                         *)
(* Reminder objects live in a heap and are named by their index in it, so   *)
(* that "the same object" and "an object with equal fields" differ, as     *)
(* they do in Python (Reminder defines no __eq__).                          *)
(***************************************************************************)
EXTENDS Integers, Sequences, FiniteSets, TLC

\* ------------------------------------------------------------- bounds
\* Reminder objects ever constructed.
MaxObj == 2
\* Length of Calendar.reminders.
MaxLen == 2
\* Days the wall clock runs through.
MaxDay == 2
\* Calls of save_completion_data.
MaxSaves == 1
\* Length of Calendar.completed_tasks.
MaxLog == 2

\* ------------------------------------------------ datetime, date, time
\* A datetime.datetime (kind "datetime") or a datetime.time (kind "time",
\* which has no date: year, month and day are 0).  Microseconds are left out.
DateTime(y, mo, d, h, mi, s) ==
    [kind |-> "datetime", year |-> y, month |-> mo, day |-> d,
     hour |-> h, minute |-> mi, second |-> s]

Time(h, mi, s) ==
    [kind |-> "time", year |-> 0, month |-> 0, day |-> 0,
     hour |-> h, minute |-> mi, second |-> s]

\* x has a .time() method: datetime.datetime has, datetime.time has not.
HasTimeMethod(x) == x.kind = "datetime"

\* datetime.time(): the time-of-day, the date dropped.
time(x) == Time(x.hour, x.minute, x.second)

\* a < b on (hour, minute, second).
TimeLE_strict(a, b) ==
    \/ a.hour < b.hour
    \/ a.hour = b.hour /\ a.minute < b.minute
    \/ a.hour = b.hour /\ a.minute = b.minute /\ a.second < b.second

\* datetime.time.__le__: a <= b on (hour, minute, second).
TimeLE(a, b) ==
    \/ a.hour < b.hour
    \/ a.hour = b.hour /\ a.minute < b.minute
    \/ a.hour = b.hour /\ a.minute = b.minute /\ a.second <= b.second

\* Whether instant a is before instant b (both datetimes).
Before(a, b) ==
    \/ a.year < b.year
    \/ a.year = b.year /\ a.month < b.month
    \/ a.year = b.year /\ a.month = b.month /\ a.day < b.day
    \/ /\ a.year = b.year /\ a.month = b.month /\ a.day = b.day
       /\ ~TimeLE(time(b), time(a))

\* ------------------------------------------------------------ strings
\* A formatted string is the sequence of its characters.
DigitChars == <<"0", "1", "2", "3", "4", "5", "6", "7", "8", "9">>

Digit(n) == DigitChars[n + 1]

IsDigit(c) == \E n \in 0..9 : DigitChars[n + 1] = c

DigitVal(c) == CHOOSE n \in 0..9 : DigitChars[n + 1] = c

\* %m, %d, %H, %M: two digits, zero padded.
Pad2(n) == <<Digit((n \div 10) % 10), Digit(n % 10)>>

\* %Y: four digits.
Pad4(n) == <<Digit((n \div 1000) % 10), Digit((n \div 100) % 10),
             Digit((n \div 10) % 10), Digit(n % 10)>>

AllDigits(s) == \A i \in 1..Len(s) : IsDigit(s[i])

RECURSIVE Num(_)
Num(s) == IF s = <<>> THEN 0
          ELSE 10 * Num(SubSeq(s, 1, Len(s) - 1)) + DigitVal(s[Len(s)])

\* x.strftime('%Y-%m-%d'), x a date or a datetime.
strftime_date(x) ==
    Pad4(x.year) \o <<"-">> \o Pad2(x.month) \o <<"-">> \o Pad2(x.day)

\* The date fields strftime formats: a datetime.time has none and strftime
\* fills in 1900-01-01.
DateOf(x) ==
    IF x.kind = "time" THEN [year |-> 1900, month |-> 1, day |-> 1]
    ELSE [year |-> x.year, month |-> x.month, day |-> x.day]

\* The format with day and month exchanged: '%Y-%d-%m %H:%M'.
strftime_minute_ydm(x) ==
    Pad4(DateOf(x).year) \o <<"-">> \o Pad2(DateOf(x).day) \o <<"-">>
        \o Pad2(DateOf(x).month) \o <<" ">> \o Pad2(x.hour) \o <<":">> \o Pad2(x.minute)

\* x.strftime('%Y-%m-%d %H:%M'): the seconds are not written.
strftime_minute(x) ==
    strftime_date(DateOf(x)) \o <<" ">> \o Pad2(x.hour) \o <<":">> \o Pad2(x.minute)

\* ---------------------------------------------------------- the clock
\* The times of day the clock is read at: the first instant of a window
\* 14:00..15:00, its last instant, and half a minute later.
ClockTimes == {Time(14, 0, 0), Time(15, 0, 0), Time(15, 0, 30)}

\* Day i of the run.
Day(i) == [year |-> 2023, month |-> 6, day |-> 6 + i]

ClockReadings ==
    {DateTime(Day(i).year, Day(i).month, Day(i).day, t.hour, t.minute, t.second) :
        i \in 1..MaxDay, t \in ClockTimes}

\* ------------------------------------------------------------ inputs
Titles == {"Meeting", "Exercise"}

\* (start_time, end_time) pairs given to the constructor, as main() gives
\* them: a window 14:00..15:00 and the same two instants the wrong way round.
Windows ==
    {<<DateTime(2023, 6, 7, 14, 0, 0), DateTime(2023, 6, 7, 15, 0, 0)>>,
     <<DateTime(2023, 6, 7, 15, 0, 0), DateTime(2023, 6, 7, 14, 0, 0)>>}

\* The constructor calls of main(): reminder1, reminder2 (with repetitions),
\* reminder3 (with both flags), and one more whose instants carry seconds.
Examples ==
    {[title |-> "Meeting", start_time |-> DateTime(2023, 6, 7, 14, 0, 0),
      end_time |-> DateTime(2023, 6, 7, 15, 0, 0), repetitions |-> <<>>,
      bank_holiday_adjustment |-> FALSE, permanent_offset |-> FALSE],
     [title |-> "Exercise", start_time |-> DateTime(2023, 6, 8, 8, 0, 0),
      end_time |-> DateTime(2023, 6, 8, 9, 0, 0),
      repetitions |-> <<<<"Monday", "Wednesday", "Friday">>>>,
      bank_holiday_adjustment |-> FALSE, permanent_offset |-> FALSE],
     [title |-> "Bin Collection", start_time |-> DateTime(2023, 6, 9, 9, 0, 0),
      end_time |-> DateTime(2023, 6, 9, 10, 0, 0), repetitions |-> <<>>,
      bank_holiday_adjustment |-> TRUE, permanent_offset |-> TRUE],
     [title |-> "Call", start_time |-> DateTime(2023, 12, 31, 14, 0, 30),
      end_time |-> DateTime(2024, 1, 1, 15, 0, 59), repetitions |-> <<<<>>>>,
      bank_holiday_adjustment |-> TRUE, permanent_offset |-> FALSE]}

\* What the user types at the "HH:MM" prompts; the last is no time of day.
TimeInputs == {<<"1", "4", ":", "0", "0">>, <<"2", "5", ":", "0", "0">>}

\* An optional argument: <<>> is None, <<v>> is the value v.
None == <<>>

Some(v) == <<v>>

\* ------------------------------------------------------------- state
VARIABLES
    heap,             \* the Reminder objects, by identity (index)
    reminders,        \* Calendar.reminders: a list of object identities
    completed_tasks,  \* Calendar.completed_tasks
    now,              \* the wall clock: what datetime.datetime.now() returns
    snapshot,         \* completion_data_<date>.json as last written, or None
    file,             \* reminders.json as last written, or None
    restored,         \* the Reminder the last deserialize(serialize()) returned, or None
    raised,           \* the exception the last call raised, or "none"
    pc,               \* "idle", or where start_clock is
    idx,              \* start_clock: position of the for loop in reminders
    current_time,     \* start_clock: its local current_time
    calls,            \* history: the parity of the number of calls made, so that a
                      \* call that changes nothing else is still a step
    tracking,         \* history: whether runs are recorded (fixed from the start)
    saves,            \* history: calls of save_completion_data so far
    born,             \* history: per object, the value of saves at construction
    run               \* history: per object, the current run of check_notification
                      \* calls made inside its window with no save in between

vars == <<heap, reminders, completed_tasks, now, snapshot, file, restored, raised,
          pc, idx, current_time, calls, tracking, saves, born, run>>

\* No run of calls is under way.
NoRun == [calls |-> 0, count0 |-> 0, triggered0 |-> FALSE]

Ids == 1..Len(heap)

\* --------------------------------------------------------- Reminder
\* `repetitions or []`
OrEmptyList(opt) == IF opt = None THEN <<>> ELSE opt[1]

\* Reminder.__init__
Reminder(title, start_time, end_time, repetitions, bank_holiday_adjustment, permanent_offset) ==
    [title |-> title, start_time |-> start_time, end_time |-> end_time,
     done |-> FALSE, triggered |-> FALSE, trigger_count |-> 0, done_count |-> 0,
     repetitions |-> OrEmptyList(repetitions),
     bank_holiday_adjustment |-> bank_holiday_adjustment,
     permanent_offset |-> permanent_offset]

\* The condition with both ends of the window left out.
NotificationDue_open(r, t) ==
    IF r.triggered THEN "false"
    ELSE IF ~HasTimeMethod(r.start_time) THEN "raise"
    ELSE IF ~TimeLE_strict(time(r.start_time), t) THEN "false"
    ELSE IF ~HasTimeMethod(r.end_time) THEN "raise"
    ELSE IF ~TimeLE_strict(t, time(r.end_time)) THEN "false"
    ELSE "true"

\* What evaluating `not self.triggered and start.time() <= t <= end.time()`
\* does, left to right with Python's short circuits: "true", "false", or
\* "raise" when .time() is asked of a datetime.time.
NotificationDue(r, t) ==
    IF r.triggered THEN "false"
    ELSE IF ~HasTimeMethod(r.start_time) THEN "raise"
    ELSE IF ~TimeLE(time(r.start_time), t) THEN "false"
    ELSE IF ~HasTimeMethod(r.end_time) THEN "raise"
    ELSE IF ~TimeLE(t, time(r.end_time)) THEN "false"
    ELSE "true"

\* Trigger without the latch: triggered is left as it was.
Trigger_no_latch(r) ==
    [r EXCEPT !.trigger_count = @ + 1,
              !.done_count = IF r.done THEN @ + 1 ELSE @]

\* The body of the if in check_notification.
Trigger(r) ==
    [r EXCEPT !.triggered = TRUE,
              !.trigger_count = @ + 1,
              !.done_count = IF r.done THEN @ + 1 ELSE @]

\* check_notification without the test of triggered.
check_notification_unlatched(r, t) ==
    IF NotificationDue([r EXCEPT !.triggered = FALSE], t) = "true" THEN Trigger(r) ELSE r

\* Reminder.check_notification with the clock reading t: the reminder after it.
check_notification(r, t) ==
    IF NotificationDue(r, t) = "true" THEN Trigger(r) ELSE r

\* mark_as_done as a toggle: a second call would undo the first.
mark_as_done_toggle(r) == [r EXCEPT !.done = ~@]

\* Reminder.mark_as_done
mark_as_done(r) == [r EXCEPT !.done = TRUE]

AttributeErrorTime == "AttributeError: 'datetime.time' object has no attribute 'time'"

\* Whether the clock reading t is inside r's window (r built from datetimes).
InWindow(r, t) ==
    /\ HasTimeMethod(r.start_time) /\ HasTimeMethod(r.end_time)
    /\ TimeLE(time(r.start_time), t) /\ TimeLE(t, time(r.end_time))

\* History: the run of calls on r after one more call at clock reading t.
RunAfterCall(r, h, t) ==
    IF ~tracking \/ ~InWindow(r, t) THEN h
    ELSE IF h.calls = 0
         THEN [calls |-> 1, count0 |-> r.trigger_count, triggered0 |-> r.triggered]
         ELSE [h EXCEPT !.calls = 2]

\* History: the runs once the clock has moved to reading c.  A run ends when
\* the time of day leaves the window, and midnight is outside every window here.
RunsAfterTick(c) ==
    [i \in Ids |-> IF InWindow(heap[i], time(c)) /\ DateOf(c) = DateOf(now)
                   THEN run[i] ELSE NoRun]

\* ------------------------------------------------------- initial state
Init ==
    /\ heap = <<>>
    /\ reminders = <<>>
    /\ completed_tasks = <<>>
    /\ now \in {c \in ClockReadings : \A d \in ClockReadings : ~Before(d, c)}
    /\ snapshot = None
    /\ file = None
    /\ restored = None
    /\ raised = "none"
    /\ pc = "idle"
    /\ idx = 0
    /\ current_time = None
    /\ calls = FALSE
    /\ tracking = FALSE
    /\ saves = 0
    /\ born = <<>>
    /\ run = <<>>

\* The same state, with the runs of check_notification calls recorded.
InitRuns ==
    /\ heap = <<>>
    /\ reminders = <<>>
    /\ completed_tasks = <<>>
    /\ now \in {c \in ClockReadings : \A d \in ClockReadings : ~Before(d, c)}
    /\ snapshot = None
    /\ file = None
    /\ restored = None
    /\ raised = "none"
    /\ pc = "idle"
    /\ idx = 0
    /\ current_time = None
    /\ calls = FALSE
    /\ tracking = TRUE
    /\ saves = 0
    /\ born = <<>>
    /\ run = <<>>

\* ------------------------------------------------------------ actions
\* Time passes: the clock moves to a later reading.  A run of calls on a
\* reminder ends when the time of day leaves its window (a new day included).
Tick ==
    /\ \E c \in ClockReadings :
        /\ Before(now, c)
        /\ now' = c
        /\ run' = RunsAfterTick(c)
    /\ UNCHANGED <<heap, reminders, completed_tasks, snapshot, file, restored,
                   raised, pc, idx, current_time, saves, born, tracking, calls>>

\* reminder = Reminder(title, start, end), as main() builds reminder1.
NewReminder ==
    /\ pc = "idle"
    /\ calls' = ~calls
    /\ Len(heap) < MaxObj
    /\ \E title \in Titles, w \in Windows :
        heap' = Append(heap, Reminder(title, w[1], w[2], None, FALSE, FALSE))
    /\ born' = Append(born, saves)
    /\ run' = Append(run, NoRun)
    /\ raised' = "none"
    /\ UNCHANGED <<reminders, completed_tasks, now, snapshot, file, restored,
                   pc, idx, current_time, saves, tracking>>

\* reminder = Reminder(title, start, end, repetitions=..., ...), as main()
\* builds its reminders.
NewReminderExample ==
    /\ pc = "idle"
    /\ calls' = ~calls
    /\ Len(heap) < MaxObj
    /\ \E a \in Examples :
        heap' = Append(heap, Reminder(a.title, a.start_time, a.end_time, a.repetitions,
                                      a.bank_holiday_adjustment, a.permanent_offset))
    /\ born' = Append(born, saves)
    /\ run' = Append(run, NoRun)
    /\ raised' = "none"
    /\ UNCHANGED <<reminders, completed_tasks, now, snapshot, file, restored,
                   pc, idx, current_time, saves, tracking>>

\* reminder.check_notification(), called by the client.
CheckNotification(id) ==
    /\ pc = "idle"
    /\ calls' = ~calls
    /\ heap' = [heap EXCEPT ![id] = check_notification(@, time(now))]
    /\ raised' = IF NotificationDue(heap[id], time(now)) = "raise"
                 THEN AttributeErrorTime ELSE "none"
    /\ run' = [run EXCEPT ![id] = RunAfterCall(heap[id], @, time(now))]
    /\ UNCHANGED <<reminders, completed_tasks, now, snapshot, file, restored,
                   pc, idx, current_time, saves, born, tracking>>

\* reminder.mark_as_done(), called by the client.
MarkAsDone(id) ==
    /\ pc = "idle"
    /\ calls' = ~calls
    /\ heap' = [heap EXCEPT ![id] = mark_as_done(@)]
    /\ raised' = "none"
    /\ UNCHANGED <<reminders, completed_tasks, now, snapshot, file, restored,
                   pc, idx, current_time, saves, born, run, tracking>>

\* ---------------------------------------------------------- Calendar
Range(s) == {s[i] : i \in 1..Len(s)}

\* == as it would be had Reminder an __eq__ comparing the fields.
PyEq_fields(a, b) == heap[a] = heap[b]

\* Python's == on two Reminder objects: Reminder defines no __eq__, so it is
\* object identity.
PyEq(a, b) == a = b

\* The index list.remove(x) / list.index(x) finds: the first element == x; 0 if none.
FirstIndex(list, x) ==
    IF \E i \in 1..Len(list) : PyEq(list[i], x)
    THEN CHOOSE i \in 1..Len(list) :
            PyEq(list[i], x) /\ \A j \in 1..(i - 1) : ~PyEq(list[j], x)
    ELSE 0

\* list without its element at index i.
DeleteAt(list, i) == SubSeq(list, 1, i - 1) \o SubSeq(list, i + 1, Len(list))

\* datetime.date.today().strftime("%Y-%m-%d")
Today == strftime_date(DateOf(now))

\* datetime.datetime.strptime(s, "%H:%M").time(): None when s does not match
\* (ValueError), else the time of day.  %H takes one or two digits up to 23,
\* %M one or two digits up to 59.
strptime_HM(s) ==
    IF ~\E k \in 1..Len(s) : s[k] = ":" THEN None
    ELSE LET k == CHOOSE j \in 1..Len(s) : s[j] = ":" /\ \A i \in 1..(j - 1) : s[i] # ":"
             h == SubSeq(s, 1, k - 1)
             m == SubSeq(s, k + 1, Len(s))
         IN  IF /\ Len(h) \in 1..2 /\ AllDigits(h) /\ Num(h) <= 23
                /\ Len(m) \in 1..2 /\ AllDigits(m) /\ Num(m) <= 59
             THEN Some(Time(Num(h), Num(m), 0))
             ELSE None

ValueErrorTime == "ValueError: time data does not match format '%H:%M'"

TypeErrorAddReminder == "TypeError: add_reminder() takes 1 positional argument but 2 were given"

ValueErrorRemove == "ValueError: list.remove(x): x not in list"

\* Client code appends an object to the public list calendar.reminders: the
\* only way a Reminder built by the constructor gets into a calendar, because
\* add_reminder(reminder) raises (see AddReminder).
AppendReminder(id) ==
    /\ pc = "idle"
    /\ calls' = ~calls
    /\ Len(reminders) < MaxLen
    /\ reminders' = Append(reminders, id)
    /\ raised' = "none"
    /\ UNCHANGED <<heap, completed_tasks, now, snapshot, file, restored,
                   pc, idx, current_time, saves, born, run, tracking>>

\* What the name Calendar.add_reminder is bound to: the class body defines it
\* twice and the second definition (no argument, interactive) replaces the first.
add_reminder_arity == 0

\* calendar.add_reminder(reminder), as main() calls it: the call passes one
\* argument to the zero-argument definition and raises TypeError.
AddReminder(id) ==
    /\ pc = "idle"
    /\ calls' = ~calls
    /\ Len(reminders) < MaxLen
    /\ IF add_reminder_arity = 1
       THEN reminders' = Append(reminders, id) /\ raised' = "none"
       ELSE reminders' = reminders /\ raised' = TypeErrorAddReminder
    /\ UNCHANGED <<heap, completed_tasks, now, snapshot, file, restored,
                   pc, idx, current_time, saves, born, run, tracking>>

\* calendar.add_reminder(), the interactive definition: the user types a
\* title and two "HH:MM" strings.  The Reminder is built from two
\* datetime.time values, not datetimes.
AddReminderInteractive ==
    /\ pc = "idle"
    /\ calls' = ~calls
    /\ Len(heap) < MaxObj
    /\ Len(reminders) < MaxLen
    /\ \E title \in Titles, start_time_str \in TimeInputs, end_time_str \in TimeInputs :
        LET start_time == strptime_HM(start_time_str)
            end_time == strptime_HM(end_time_str)
        IN  IF start_time = None \/ end_time = None
            THEN /\ raised' = ValueErrorTime
                 /\ UNCHANGED <<heap, reminders, born, run, tracking>>
            ELSE /\ heap' = Append(heap, Reminder(title, start_time[1], end_time[1],
                                                  None, FALSE, FALSE))
                 /\ reminders' = Append(reminders, Len(heap) + 1)
                 /\ born' = Append(born, saves)
                 /\ run' = Append(run, NoRun)
                 /\ raised' = "none"
    /\ UNCHANGED <<completed_tasks, now, snapshot, file, restored,
                   pc, idx, current_time, saves, tracking>>

\* Calendar.remove_reminder
RemoveReminder(id) ==
    /\ pc = "idle"
    /\ calls' = ~calls
    /\ LET i == FirstIndex(reminders, id)
       IN  IF i = 0
           THEN reminders' = reminders /\ raised' = ValueErrorRemove
           ELSE reminders' = DeleteAt(reminders, i) /\ raised' = "none"
    /\ UNCHANGED <<heap, completed_tasks, now, snapshot, file, restored,
                   pc, idx, current_time, saves, born, run, tracking>>

\* Calendar.mark_reminder_as_done
MarkReminderAsDone(id) ==
    /\ pc = "idle"
    /\ calls' = ~calls
    /\ Len(completed_tasks) < MaxLog
    /\ heap' = [heap EXCEPT ![id] = mark_as_done(@)]
    /\ completed_tasks' = Append(completed_tasks,
                                 [title |-> heap[id].title, date |-> Today])
    /\ raised' = "none"
    /\ UNCHANGED <<reminders, now, snapshot, file, restored,
                   pc, idx, current_time, saves, born, run, tracking>>

\* The list save_completion_data builds: one record per element of reminders.
completion_data(list) ==
    [i \in 1..Len(list) |->
        [title |-> heap[list[i]].title, date |-> Today,
         trigger_count |-> heap[list[i]].trigger_count,
         done_count |-> heap[list[i]].done_count]]

\* The reset left out.
ResetTriggered_skip(r) == r

\* The once-a-day reset: reminder.triggered = False.
ResetTriggered(r) == [r EXCEPT !.triggered = FALSE]

\* Calendar.save_completion_data
SaveCompletionData ==
    /\ pc = "idle"
    /\ calls' = ~calls
    /\ saves < MaxSaves
    /\ heap' = [i \in Ids |-> IF i \in Range(reminders)
                              THEN ResetTriggered(heap[i]) ELSE heap[i]]
    /\ snapshot' = Some([name |-> <<"completion_data_">> \o Today \o <<".json">>,
                         data |-> completion_data(reminders)])
    /\ raised' = "none"
    /\ saves' = saves + 1
    /\ run' = [i \in Ids |-> NoRun]
    /\ UNCHANGED <<reminders, completed_tasks, now, file, restored,
                   pc, idx, current_time, born, tracking>>

\* ------------------------------------------------------- persistence
\* datetime.datetime.strptime(s, '%Y-%m-%d %H:%M') on a string of the width
\* strftime writes: None when s does not match (ValueError), else the
\* datetime, its seconds 0.
strptime_minute(s) ==
    IF /\ Len(s) = 16
       /\ s[5] = "-" /\ s[8] = "-" /\ s[11] = " " /\ s[14] = ":"
       /\ AllDigits(SubSeq(s, 1, 4)) /\ AllDigits(SubSeq(s, 6, 7))
       /\ AllDigits(SubSeq(s, 9, 10)) /\ AllDigits(SubSeq(s, 12, 13))
       /\ AllDigits(SubSeq(s, 15, 16))
       /\ Num(SubSeq(s, 1, 4)) >= 1
       /\ Num(SubSeq(s, 6, 7)) \in 1..12 /\ Num(SubSeq(s, 9, 10)) \in 1..31
       /\ Num(SubSeq(s, 12, 13)) <= 23 /\ Num(SubSeq(s, 15, 16)) <= 59
    THEN Some(DateTime(Num(SubSeq(s, 1, 4)), Num(SubSeq(s, 6, 7)),
                       Num(SubSeq(s, 9, 10)), Num(SubSeq(s, 12, 13)),
                       Num(SubSeq(s, 15, 16)), 0))
    ELSE None

\* Reminder.serialize
serialize(r) ==
    [title |-> r.title,
     start_time |-> strftime_minute(r.start_time),
     end_time |-> strftime_minute(r.end_time),
     repetitions |-> r.repetitions,
     bank_holiday_adjustment |-> r.bank_holiday_adjustment,
     permanent_offset |-> r.permanent_offset]

\* Reminder.deserialize (the strings it is given parse: serialize wrote them)
deserialize(data) ==
    Reminder(data.title,
             strptime_minute(data.start_time)[1],
             strptime_minute(data.end_time)[1],
             Some(data.repetitions),
             data.bank_holiday_adjustment,
             data.permanent_offset)

\* Calendar.serialize
CalendarSerialize ==
    [reminders |-> [i \in 1..Len(reminders) |-> serialize(heap[reminders[i]])],
     completed_tasks |-> completed_tasks]

\* json.dump / json.load of strings, booleans, lists and string-keyed
\* dicts: the document holds the value.
json_dump(v) == [json |-> v]

json_load(text) == text.json

FileNotFoundError == "FileNotFoundError: [Errno 2] No such file or directory"

AttributeErrorDeserialize == "AttributeError: type object 'Calendar' has no attribute 'deserialize'"

\* Whether class Calendar defines deserialize: it does not, main() and
\* load_reminders_from_file call it all the same.
CalendarHasDeserialize == FALSE

\* Reminder.deserialize(reminder.serialize()): a new object, kept in restored.
RoundTrip(id) ==
    /\ pc = "idle"
    /\ calls' = ~calls
    /\ restored' = Some(deserialize(serialize(heap[id])))
    /\ raised' = "none"
    /\ UNCHANGED <<heap, reminders, completed_tasks, now, snapshot, file,
                   pc, idx, current_time, saves, born, run, tracking>>

\* Calendar.save_reminders_to_file
SaveRemindersToFile ==
    /\ pc = "idle"
    /\ calls' = ~calls
    /\ file' = Some(json_dump(CalendarSerialize))
    /\ raised' = "none"
    /\ UNCHANGED <<heap, reminders, completed_tasks, now, snapshot, restored,
                   pc, idx, current_time, saves, born, run, tracking>>

\* Calendar.load_reminders_from_file: open and json.load succeed when the
\* file exists, then cls.deserialize(data) raises.
LoadRemindersFromFile ==
    /\ pc = "idle"
    /\ calls' = ~calls
    /\ raised' = IF file = None THEN FileNotFoundError
                 ELSE IF ~CalendarHasDeserialize THEN AttributeErrorDeserialize
                 ELSE "none"
    /\ UNCHANGED <<heap, reminders, completed_tasks, now, snapshot, file, restored,
                   pc, idx, current_time, saves, born, run, tracking>>

\* ------------------------------------------------------ the polling loop
\* time.sleep(60): seconds.
SleepSeconds == 60

\* Seconds from the start of the month to instant x (the clock stays in one month).
Instant(x) == ((x.day * 24 + x.hour) * 60 + x.minute) * 60 + x.second

\* What evaluating `start.time() <= current_time <= end.time()` in
\* start_clock does: "true", "false" or "raise".
WindowTest(r, t) ==
    IF ~HasTimeMethod(r.start_time) THEN "raise"
    ELSE IF ~TimeLE(time(r.start_time), t) THEN "false"
    ELSE IF ~HasTimeMethod(r.end_time) THEN "raise"
    ELSE IF ~TimeLE(t, time(r.end_time)) THEN "false"
    ELSE "true"

\* calendar.start_clock() is called, as main() does first of all.
StartClock ==
    /\ pc = "idle"
    /\ calls' = ~calls
    /\ pc' = "clock_read"
    /\ raised' = "none"
    /\ UNCHANGED <<heap, reminders, completed_tasks, now, snapshot, file, restored,
                   idx, current_time, saves, born, run, tracking>>

\* current_time = datetime.datetime.now().time(), and the for loop starts.
ClockRead ==
    /\ pc = "clock_read"
    /\ current_time' = Some(time(now))
    /\ idx' = 1
    /\ pc' = "clock_for"
    /\ UNCHANGED <<heap, reminders, completed_tasks, now, snapshot, file, restored,
                   raised, saves, born, run, tracking, calls>>

\* One iteration of the for loop: the window test on current_time, then
\* check_notification, which reads the clock again.  An exception leaves
\* start_clock.
ClockFor ==
    /\ pc = "clock_for"
    /\ idx <= Len(reminders)
    /\ LET id == reminders[idx]
           test == WindowTest(heap[id], current_time[1])
       IN  IF test = "raise"
           THEN /\ pc' = "clock_raised"
                /\ raised' = AttributeErrorTime
                /\ UNCHANGED <<heap, idx, run, tracking>>
           ELSE /\ heap' = IF test = "true"
                           THEN [heap EXCEPT ![id] = check_notification(@, time(now))]
                           ELSE heap
                /\ run' = IF test = "true"
                          THEN [run EXCEPT ![id] = RunAfterCall(heap[id], @, time(now))]
                          ELSE run
                /\ idx' = idx + 1
                /\ UNCHANGED <<pc, raised, tracking>>
    /\ UNCHANGED <<reminders, completed_tasks, now, snapshot, file, restored,
                   current_time, saves, born, tracking, calls>>

\* The for loop is over: time.sleep(60) is called.
ClockForEnd ==
    /\ pc = "clock_for"
    /\ idx > Len(reminders)
    /\ pc' = "clock_sleep"
    /\ UNCHANGED <<heap, reminders, completed_tasks, now, snapshot, file, restored,
                   raised, idx, current_time, saves, born, run, tracking, calls>>

\* time.sleep(60) returns, at least 60 seconds later, and the loop goes round.
ClockSleep ==
    /\ pc = "clock_sleep"
    /\ \E c \in ClockReadings :
        /\ Instant(c) >= Instant(now) + SleepSeconds
        /\ now' = c
        /\ run' = RunsAfterTick(c)
    /\ pc' = "clock_read"
    /\ UNCHANGED <<heap, reminders, completed_tasks, snapshot, file, restored,
                   raised, idx, current_time, saves, born, tracking, calls>>

\* ----------------------------------------------------- specifications
\* Every operation of the program.
Next ==
    \/ Tick
    \/ NewReminder
    \/ NewReminderExample
    \/ \E id \in Ids : CheckNotification(id)
    \/ \E id \in Ids : MarkAsDone(id)
    \/ \E id \in Ids : AppendReminder(id)
    \/ \E id \in Ids : AddReminder(id)
    \/ AddReminderInteractive
    \/ \E id \in Ids : RemoveReminder(id)
    \/ \E id \in Ids : MarkReminderAsDone(id)
    \/ SaveCompletionData
    \/ \E id \in Ids : RoundTrip(id)
    \/ SaveRemindersToFile
    \/ LoadRemindersFromFile
    \/ StartClock
    \/ ClockRead
    \/ ClockFor
    \/ ClockForEnd
    \/ ClockSleep

Spec == Init /\ [][Next]_vars

\* The Reminder's life: built, put in a calendar, checked against the clock,
\* marked done, reset by the daily save.
NextReminder ==
    \/ Tick
    \/ NewReminder
    \/ AddReminderInteractive
    \/ \E id \in Ids : AppendReminder(id)
    \/ \E id \in Ids : CheckNotification(id)
    \/ \E id \in Ids : MarkAsDone(id)
    \/ \E id \in Ids : MarkReminderAsDone(id)
    \/ SaveCompletionData

SpecReminder == Init /\ [][NextReminder]_vars

\* The same, with the runs of check_notification calls recorded.
NextRuns ==
    \/ Tick
    \/ NewReminder
    \/ \E id \in Ids : AppendReminder(id)
    \/ \E id \in Ids : CheckNotification(id)
    \/ \E id \in Ids : MarkAsDone(id)
    \/ SaveCompletionData

SpecRuns == InitRuns /\ [][NextRuns]_vars

\* The Calendar's list and its completion log.
NextCalendar ==
    \/ Tick
    \/ NewReminder
    \/ AddReminderInteractive
    \/ \E id \in Ids : AppendReminder(id)
    \/ \E id \in Ids : AddReminder(id)
    \/ \E id \in Ids : RemoveReminder(id)
    \/ \E id \in Ids : CheckNotification(id)
    \/ \E id \in Ids : MarkReminderAsDone(id)

SpecCalendar == Init /\ [][NextCalendar]_vars

\* The polling loop, on a calendar filled either way.
NextClock ==
    \/ Tick
    \/ NewReminder
    \/ AddReminderInteractive
    \/ \E id \in Ids : AppendReminder(id)
    \/ StartClock
    \/ ClockRead
    \/ ClockFor
    \/ ClockForEnd
    \/ ClockSleep

SpecClock == Init /\ [][NextClock]_vars

\* Serialisation and the reminders file.
NextPersist ==
    \/ NewReminderExample
    \/ AddReminderInteractive
    \/ \E id \in Ids : AppendReminder(id)
    \/ \E id \in Ids : CheckNotification(id)
    \/ \E id \in Ids : MarkReminderAsDone(id)
    \/ \E id \in Ids : RoundTrip(id)
    \/ SaveRemindersToFile
    \/ LoadRemindersFromFile

SpecPersist == Init /\ [][NextPersist]_vars

\* ------------------------------------------------------------- claims
\* Seconds since midnight of a time of day.
SecondOfDay(x) == (x.hour * 60 + x.minute) * 60 + x.second

\* r was built from two datetimes, as Reminder's methods require.
HasDatetimes(r) == r.start_time.kind = "datetime" /\ r.end_time.kind = "datetime"

\* The time of day t lies in [start_time, end_time], both ends included, dates ignored.
WindowContains(r, t) ==
    /\ SecondOfDay(r.start_time) <= SecondOfDay(t)
    /\ SecondOfDay(t) <= SecondOfDay(r.end_time)

RunCount ==
    \A id \in Ids :
        run[id].calls >= 1 =>
            /\ heap[id].triggered
            /\ heap[id].trigger_count =
                   run[id].count0 + (IF run[id].triggered0 THEN 0 ELSE 1)

\* Every call of a run after its first changes no field of the reminder.
LaterCallsChangeNothing ==
    \A id \in Ids :
        (CheckNotification(id) /\ run[id].calls >= 1 /\ WindowContains(heap[id], time(now)))
            => heap'[id] = heap[id]

C2_Effect(r, t) ==
    IF ~r.triggered /\ WindowContains(r, t)
    THEN [r EXCEPT !.triggered = TRUE,
                   !.trigger_count = r.trigger_count + 1,
                   !.done_count = IF r.done THEN r.done_count + 1 ELSE r.done_count]
    ELSE r

C3_SaveCompletionData ==
    [][SaveCompletionData =>
          /\ \A i \in 1..Len(reminders) : ~heap'[reminders[i]].triggered
          /\ snapshot' # None
          /\ Len(snapshot'[1].data) = Len(reminders)
          /\ \A i \in 1..Len(reminders) :
                /\ snapshot'[1].data[i].title = heap[reminders[i]].title
                /\ snapshot'[1].data[i].trigger_count = heap[reminders[i]].trigger_count
                /\ snapshot'[1].data[i].done_count = heap[reminders[i]].done_count
          /\ \A id \in Ids :
                /\ heap'[id].trigger_count = heap[id].trigger_count
                /\ heap'[id].done_count = heap[id].done_count
                /\ heap'[id].done = heap[id].done
          /\ reminders' = reminders
          /\ completed_tasks' = completed_tasks
          /\ \A i \in 1..Len(reminders) :
                (HasDatetimes(heap[reminders[i]])
                    /\ WindowContains(heap[reminders[i]], time(now')))
                    => check_notification(heap'[reminders[i]], time(now')).trigger_count
                           = heap[reminders[i]].trigger_count + 1]_vars

\* A saved calendar of two reminders, one of them triggered again since.
C3_Witness ==
    /\ snapshot # None
    /\ Len(reminders) = 2
    /\ Len(snapshot[1].data) = 2
    /\ completed_tasks # <<>>
    /\ \E i \in 1..2 :
        /\ snapshot[1].data[i].trigger_count = 1
        /\ heap[reminders[i]].trigger_count = 2

\* The log keeps what it holds: an operation only ever adds entries at its end.
AppendOnly ==
    /\ Len(completed_tasks') >= Len(completed_tasks)
    /\ SubSeq(completed_tasks', 1, Len(completed_tasks)) = completed_tasks

\* C4: mark_reminder_as_done(reminder) sets done and appends exactly one
\* entry, the reminder's title with today's date, to completed_tasks; the
\* earlier entries stay (under every operation), and triggered and the two
\* counters of the reminder are unchanged; so on every call, a repeated one
\* and one on a reminder outside the list included.
C4_MarkReminderAsDone ==
    [][/\ AppendOnly
       /\ \A id \in Ids :
            MarkReminderAsDone(id) =>
                /\ heap'[id].done
                /\ Len(completed_tasks') = Len(completed_tasks) + 1
                /\ completed_tasks'[Len(completed_tasks')].title = heap[id].title
                /\ strptime_minute(completed_tasks'[Len(completed_tasks')].date
                                       \o <<" ", "0", "0", ":", "0", "0">>)
                       = Some(DateTime(now.year, now.month, now.day, 0, 0, 0))
                /\ heap'[id].triggered = heap[id].triggered
                /\ heap'[id].trigger_count = heap[id].trigger_count
                /\ heap'[id].done_count = heap[id].done_count]_vars

\* One triggered reminder, in no calendar, marked done twice.
C4_Witness ==
    /\ Len(heap) = 1
    /\ reminders = <<>>
    /\ heap[1].trigger_count = 1
    /\ Len(completed_tasks) = 2

\* Serialised and read back, x is the instant r to the minute.
SameToTheMinute(x, r) ==
    /\ x.kind = "datetime"
    /\ x.hour = r.hour /\ x.minute = r.minute /\ x.second = 0
    /\ r.kind = "datetime" => (x.year = r.year /\ x.month = r.month /\ x.day = r.day)

C6_LoadReturnsSaved ==
    [][(LoadRemindersFromFile /\ file = Some(json_dump(CalendarSerialize)))
          => raised' = "none"]_vars

\* C7: add_reminder(reminder) appends the reminder as the last element of
\* reminders and leaves completed_tasks alone.
C7_AddReminderAppends ==
    [][\A id \in Ids :
          AddReminder(id) =>
              /\ reminders' = Append(reminders, id)
              /\ completed_tasks' = completed_tasks]_vars

\* The first index of list whose object has the same field values as object x; 0 if none.
FirstEqualFields(list, x) ==
    IF \E i \in 1..Len(list) : heap[list[i]] = heap[x]
    THEN CHOOSE i \in 1..Len(list) :
            heap[list[i]] = heap[x] /\ \A j \in 1..(i - 1) : heap[list[j]] # heap[x]
    ELSE 0

\* The first index of list that is the object x itself; 0 if none.
FirstSame(list, x) ==
    IF \E i \in 1..Len(list) : list[i] = x
    THEN CHOOSE i \in 1..Len(list) : list[i] = x /\ \A j \in 1..(i - 1) : list[j] # x
    ELSE 0

\* What remove_reminder does when it is to remove index i (0: not found).
RemovalAt(i) ==
    /\ completed_tasks' = completed_tasks
    /\ heap' = heap
    /\ IF i = 0
       THEN reminders' = reminders /\ raised' = ValueErrorRemove
       ELSE /\ reminders' = SubSeq(reminders, 1, i - 1) \o SubSeq(reminders, i + 1, Len(reminders))
            /\ raised' = "none"

\* C8, as stated: remove_reminder(reminder) removes the first element with
\* the same field values as the argument, and fails with a not-found error,
\* changing nothing, when there is none.
C8_RemovesFirstEqual ==
    [][\A id \in Ids :
          RemoveReminder(id) => RemovalAt(FirstEqualFields(reminders, id))]_vars

\* C8, amended: remove_reminder(reminder) removes the first element that is
\* the argument itself (the same object), shortening the list by one and
\* keeping the order of the rest; when the argument is not in the list, even
\* if an element with equal field values is, it fails with a not-found error
\* and leaves reminders and completed_tasks unchanged.
C8_RemovesFirstSame ==
    [][\A id \in Ids :
          RemoveReminder(id) => RemovalAt(FirstSame(reminders, id))]_vars

\* A removal has failed although the list holds an object with the
\* argument's field values.
C8_Witness ==
    /\ raised = ValueErrorRemove
    /\ \E id \in Ids :
        /\ id \notin Range(reminders)
        /\ \E i \in 1..Len(reminders) : heap[reminders[i]] = heap[id]

\* C9: start_clock never returns to its caller, and at the end of every
\* poll each reminder whose window contains the time the poll read is triggered.
C9_StartClockNeverReturns ==
    /\ pc # "clock_raised"
    /\ pc = "clock_sleep" =>
          \A i \in 1..Len(reminders) :
              WindowContains(heap[reminders[i]], current_time[1])
                  => heap[reminders[i]].triggered

\* The bounds of C10 on the two counters of every reminder.
CounterBounds ==
    \A id \in Ids :
        /\ 0 <= heap[id].done_count
        /\ heap[id].done_count <= heap[id].trigger_count
        /\ heap[id].trigger_count <= 1 + (saves - born[id])

\* No step lowers a counter or clears done.
Monotonic ==
    \A id \in Ids :
        /\ heap'[id].trigger_count >= heap[id].trigger_count
        /\ heap'[id].done_count >= heap[id].done_count
        /\ heap[id].done => heap'[id].done

\* C10: under every interleaving of check_notification, mark_as_done,
\* mark_reminder_as_done, save_completion_data and clock advances,
\* 0 <= done_count <= trigger_count, neither counter decreases, done never
\* goes back to false, and trigger_count is at most 1 plus the number of
\* save_completion_data calls since the reminder was constructed.
C10_Counters == []CounterBounds /\ [][Monotonic]_vars

\* A reminder built after a save and triggered, beside one triggered again
\* after that save.
C10_Witness ==
    \E a \in Ids, b \in Ids :
        /\ born[a] = 0 /\ heap[a].trigger_count = 2 /\ heap[a].done_count = 1
        /\ born[b] = 1 /\ heap[b].trigger_count = 1

====
